---- MODULE Spec2Model ----
(***************************************************************************)
(* loadPb of src/protobufNew/index.ts: the registry of declared nodes      *)
(* (nodeMap), the per-file index (filenameNodeMap), the cross-file type    *)
(* resolver (crawlAstAndAttachNamespace) and the emission of one           *)
(* declaration file per schema file.                                       *)
(*                                                                         *)
(* Strings are TLA+ strings; a file name is the file's position in         *)
(* fileList; a reflection object (meta) is a reference [ast, path] into    *)
(* astList, so that the registry, the file index and the resolver share    *)
(* the nodes the way the JavaScript objects are shared.                    *)
(***************************************************************************)
EXTENDS Integers, Sequences, FiniteSets, TLC

VARIABLES files, lint, pc, fileIdx, nodeMap, astList, filenameNodeMap,
          astIdx, pass, assigned, taskIdx, tasks, written

vars == <<files, lint, pc, fileIdx, nodeMap, astList, filenameNodeMap,
          astIdx, pass, assigned, taskIdx, tasks, written>>

\* Largest number of *.proto files under the root directory.
MaxFiles == 3

----------------------------------------------------------------------------
(* String helpers                                                          *)

\* s.indexOf(t) !== -1
Contains(s, t) ==
  \E p \in 1..(Len(s) - Len(t) + 1) : SubSeq(s, p, p + Len(t) - 1) = t

\* s.replace(/^\./, '')
StripDot(s) == IF Len(s) > 0 /\ Head(s) = "." THEN Tail(s) ELSE s

\* The part of a dotted name after its last dot (the name of the namespace
\* node that a package path ends in).
LastSegment(s) ==
  LET dots == {p \in 1..Len(s) : SubSeq(s, p, p) = "."}
  IN  IF dots = {} THEN s
      ELSE LET last == CHOOSE p \in dots : \A q \in dots : q <= p
           IN  SubSeq(s, last + 1, Len(s))

----------------------------------------------------------------------------
(* What pb.parse returns for the schema files of the run                   *)

\* A field as parsed: rule is "optional", "required" or "repeated"; no field
\* of the catalogue has a doc comment, and pb.parse resolves no type.
Field(name, type, id, rule) ==
  [name |-> name, type |-> type, id |-> id, rule |-> rule, comment |-> "",
   resolved |-> FALSE]

Enum(name) == [kind |-> "enum", name |-> name, nested |-> <<>>, fields |-> <<>>]

Message(name, nested, fields) ==
  [kind |-> "message", name |-> name, nested |-> nested, fields |-> fields]

Service(name) ==
  [kind |-> "service", name |-> name, nested |-> <<>>, fields |-> <<>>]

\* pb.parse throws on this file.
Broken == [ok |-> FALSE, package |-> "", nested |-> <<>>]

\* Parses, but has no package statement (ast.package is undefined).
NoPackage ==
  [ok |-> TRUE, package |-> "", nested |-> <<Message("T", <<>>, <<>>)>>]

\* package a; message T {} message B { required T f = 1; bool g = 2;
\*   U u = 3; }
FileA1 ==
  [ok |-> TRUE, package |-> "a",
   nested |-> <<Message("T", <<>>, <<>>),
                Message("B", <<>>, <<Field("f", "T", 1, "required"),
                                     Field("g", "bool", 2, "optional"),
                                     Field("u", "U", 3, "optional")>>)>>]

\* package a; message C { repeated T t = 1; a.T q = 2; } service U {}
FileA2 ==
  [ok |-> TRUE, package |-> "a",
   nested |-> <<Message("C", <<>>, <<Field("t", "T", 1, "repeated"),
                                     Field("q", "a.T", 2, "optional")>>),
                Service("U")>>]

\* package a.a; message T {}
FileAA ==
  [ok |-> TRUE, package |-> "a.a",
   nested |-> <<Message("T", <<>>, <<>>)>>]

\* package b; enum T {} message Outer { message Inner { T t = 1; } enum E {}
\*   Inner i = 1; repeated T t = 2; E e = 3; } message bool {} service S {}
FileB ==
  [ok |-> TRUE, package |-> "b",
   nested |-> <<Enum("T"),
                Message("Outer",
                        <<Message("Inner", <<>>,
                                  <<Field("t", "T", 1, "optional")>>),
                          Enum("E")>>,
                        <<Field("i", "Inner", 1, "optional"),
                          Field("t", "T", 2, "repeated"),
                          Field("e", "E", 3, "optional")>>),
                Message("bool", <<>>, <<>>),
                Service("S")>>]

Catalogue == {Broken, NoPackage, FileA1, FileA2, FileAA, FileB}

FileLists == UNION {[1..n -> Catalogue] : n \in 0..MaxFiles}

----------------------------------------------------------------------------
(* Reflection objects                                                      *)

NoRef == [ast |-> 0, path |-> <<>>]

RECURSIVE NodeAt(_, _)
NodeAt(nested, path) ==
  IF Len(path) = 1 THEN nested[path[1]]
  ELSE NodeAt(nested[path[1]].nested, Tail(path))

RECURSIVE NamePath(_, _)
NamePath(nested, path) ==
  IF path = <<>> THEN ""
  ELSE "." \o nested[path[1]].name
           \o NamePath(nested[path[1]].nested, Tail(path))

\* ReflectionObject.fullName: the package path, then the enclosing names.
FullName(ast, path) == "." \o ast.package \o NamePath(ast.nested, path)

\* ReflectionObject.name
NodeName(ast, path) ==
  IF path = <<>> THEN LastSegment(ast.package)
  ELSE NodeAt(ast.nested, path).name

\* The class of the object; the namespace node is the root of the crawl.
NodeKind(ast, path) ==
  IF path = <<>> THEN "namespace" ELSE NodeAt(ast.nested, path).kind

\* Namespace.nestedArray, as paths
NestedArray(ast, path) ==
  LET kids == IF path = <<>> THEN ast.nested
              ELSE NodeAt(ast.nested, path).nested
  IN  [c \in 1..Len(kids) |-> Append(path, c)]

isEnum(ast, path) == NodeKind(ast, path) = "enum"
isMessage(ast, path) == NodeKind(ast, path) = "message"
isService(ast, path) == NodeKind(ast, path) = "service"
\* pb.Type and pb.Service extend pb.Namespace, pb.Enum does not: a message
\* or a service is an instance of pb.Namespace as well.
isNamespace(ast, path) ==
  NodeKind(ast, path) \in {"namespace", "message", "service"}

----------------------------------------------------------------------------
(* crawlAST                                                                *)

HasKey(nm, key) == \E p \in 1..Len(nm) : nm[p].ns = key

KeyPos(nm, key) == CHOOSE p \in 1..Len(nm) : nm[p].ns = key

\* The entry pushed for the current node; none for any other object.
EntryFor(ast, a, path, filename) ==
  IF isEnum(ast, path)
    THEN <<[meta |-> [ast |-> a, path |-> path], type |-> "enum",
            filename |-> filename]>>
  ELSE IF isMessage(ast, path)
    THEN <<[meta |-> [ast |-> a, path |-> path], type |-> "message",
            filename |-> filename]>>
  ELSE IF isService(ast, path)
    THEN <<[meta |-> [ast |-> a, path |-> path], type |-> "service",
            filename |-> filename]>>
  ELSE IF isNamespace(ast, path)
    THEN <<[meta |-> [ast |-> a, path |-> path], type |-> "namespace",
            filename |-> filename]>>
  ELSE <<>>

\* Fault variant of InsertEntry: a later declaration of a name replaces the
\* list held under it.
InsertEntryOverwrite(nm, fullname, entry) ==
  IF HasKey(nm, fullname)
    THEN [nm EXCEPT ![KeyPos(nm, fullname)].node = entry]
    ELSE Append(nm, [ns |-> fullname, node |-> entry])

\* nodeMap.get(fullname) or a fresh list set under fullname, then data.push
InsertEntry(nm, fullname, entry) ==
  IF HasKey(nm, fullname)
    THEN [nm EXCEPT ![KeyPos(nm, fullname)].node = @ \o entry]
    ELSE Append(nm, [ns |-> fullname, node |-> entry])

\* The children are pushed in the last branch of the else-if chain only: for
\* a namespace that is no enum, message or service.
PushedChildren(ast, path) ==
  IF ~isEnum(ast, path) /\ ~isMessage(ast, path) /\ ~isService(ast, path)
     /\ isNamespace(ast, path)
    THEN NestedArray(ast, path)
    ELSE <<>>

RECURSIVE CrawlLoop(_, _, _, _, _)
CrawlLoop(nodeList, nm, ast, a, filename) ==
  IF nodeList = <<>> THEN nm
  ELSE LET current == nodeList[Len(nodeList)]
           rest == SubSeq(nodeList, 1, Len(nodeList) - 1)
           fullname == StripDot(FullName(ast, current))
       IN  CrawlLoop(rest \o PushedChildren(ast, current),
                     InsertEntry(nm, fullname,
                                 EntryFor(ast, a, current, filename)),
                     ast, a, filename)

crawlAST(ast, a, nm, filename) == CrawlLoop(<<<<>>>>, nm, ast, a, filename)

----------------------------------------------------------------------------
(* filenameNodeMap: the registry regrouped by declaring file               *)

RECURSIVE PushDataReset(_, _)
\* Fault variant of PushData: the list of the file is created anew for every
\* entry, so that only the file's last entry is kept.
PushDataReset(datumList, m) ==
  IF datumList = <<>> THEN m
  ELSE LET datum == Head(datumList)
           m1 == IF datum.filename \in DOMAIN m
                   THEN [m EXCEPT ![datum.filename] = <<>>]
                   ELSE m @@ (datum.filename :> <<>>)
       IN  PushDataReset(Tail(datumList),
                         [m1 EXCEPT ![datum.filename] = Append(@, datum)])

RECURSIVE PushData(_, _)
PushData(datumList, m) ==
  IF datumList = <<>> THEN m
  ELSE LET datum == Head(datumList)
           m1 == IF datum.filename \in DOMAIN m THEN m
                 ELSE m @@ (datum.filename :> <<>>)
       IN  PushData(Tail(datumList),
                    [m1 EXCEPT ![datum.filename] = Append(@, datum)])

RECURSIVE GroupByFilename(_, _)
GroupByFilename(nm, m) ==
  IF nm = <<>> THEN m
  ELSE GroupByFilename(Tail(nm), PushData(Head(nm).node, m))

----------------------------------------------------------------------------
(* crawlAstAndAttachNamespace                                              *)

OriginTypes ==
  {"double", "float", "int32", "int64", "uint32", "uint64", "sint32",
   "sint64", "fixed32", "fixed64", "sfixed32", "sfixed64", "bool", "bytes",
   "string", "list", "map"}

\* Fault variant of isOriginType: bool is missing from the list.
isOriginTypeWithoutBool(type) == type \in OriginTypes \ {"bool"}

isOriginType(type) == type \in OriginTypes

\* Fault variant of Survives: the entry's name is compared with the last
\* segment of the field's type.
SurvivesLastSegment(d, asts, fieldType) ==
  /\ d.type \in {"enum", "message"}
  /\ NodeName(asts[d.meta.ast], d.meta.path) = LastSegment(fieldType)

\* The filter of one registry list: enums and messages whose name is the
\* field's type as it stands when the filter runs.
Survives(d, asts, fieldType) ==
  \/ d.type = "enum" /\ NodeName(asts[d.meta.ast], d.meta.path) = fieldType
  \/ d.type = "message" /\ NodeName(asts[d.meta.ast], d.meta.path) = fieldType

FilteredData(node, asts, fieldType) ==
  SelectSeq(node, LAMBDA d : Survives(d, asts, fieldType))

\* One candidate: the loop over the registry in insertion order.  hit tells
\* whether field.type was assigned, to is the value assigned.
ScanCandidate(candidate, fieldType, nm, asts) ==
  LET ff == IF Contains(candidate, ".") THEN candidate ELSE "." \o candidate
      hits == {p \in 1..Len(nm) :
                 /\ Contains(nm[p].ns, ff)
                 /\ FilteredData(nm[p].node, asts, fieldType) # <<>>}
  IN  IF hits = {} THEN [hit |-> FALSE, to |-> fieldType]
      ELSE LET first == CHOOSE p \in hits : \A q \in hits : p <= q
               d == FilteredData(nm[first].node, asts, fieldType)[1]
           IN  [hit |-> TRUE,
                to |-> StripDot(FullName(asts[d.meta.ast], d.meta.path))]

\* Fault variant of FieldWrites: the filter of the second candidate compares
\* with the type as parsed, not with the type the first candidate left.
FieldWritesParsedType(package, field, nm, asts) ==
  IF ~field.resolved /\ ~isOriginType(field.type)
    THEN LET r1 == ScanCandidate(package \o "." \o field.type, field.type,
                                 nm, asts)
             r2 == ScanCandidate(field.type, field.type, nm, asts)
         IN  (IF r1.hit THEN <<r1.to>> ELSE <<>>)
             \o (IF r2.hit THEN <<r2.to>> ELSE <<>>)
    ELSE <<>>

\* The values assigned to field.type, in order, while one field is handled.
\* The callback given to some() returns undefined for either candidate, so
\* both candidates are run; the second runs against the type the first left.
FieldWrites(package, field, nm, asts) ==
  IF ~field.resolved /\ ~isOriginType(field.type)
    THEN LET r1 == ScanCandidate(package \o "." \o field.type, field.type,
                                 nm, asts)
             r2 == ScanCandidate(field.type, r1.to, nm, asts)
         IN  (IF r1.hit THEN <<r1.to>> ELSE <<>>)
             \o (IF r2.hit THEN <<r2.to>> ELSE <<>>)
    ELSE <<>>

ResolvedField(package, field, nm, asts) ==
  LET w == FieldWrites(package, field, nm, asts)
  IN  IF w = <<>> THEN field ELSE [field EXCEPT !.type = w[Len(w)]]

\* The nestedArray of the package namespace after the pass: the fields of
\* the messages that are its direct children are the ones visited.
AttachedNested(ast, nm, asts) ==
  [d \in 1..Len(ast.nested) |->
     IF isMessage(ast, <<d>>)
       THEN [ast.nested[d] EXCEPT !.fields =
               [f \in 1..Len(ast.nested[d].fields) |->
                  ResolvedField(ast.package, ast.nested[d].fields[f], nm, asts)]]
       ELSE ast.nested[d]]

\* The assignments of the pass (each is also a console.log line), with the
\* field assigned: message d of the namespace, field f, n-th assignment.
AttachLog(a, ast, nm, asts, p) ==
  UNION {
    UNION {
      LET w == FieldWrites(ast.package, ast.nested[d].fields[f], nm, asts)
      IN  {[pass |-> p, ast |-> a, d |-> d, f |-> f, n |-> n,
            from |-> ast.nested[d].fields[f].type, to |-> w[n]] :
              n \in 1..Len(w)} :
      f \in 1..Len(ast.nested[d].fields)} :
    d \in {c \in 1..Len(ast.nested) : isMessage(ast, <<c>>)}}

----------------------------------------------------------------------------
(* The declaration entities and the text of one output file                *)

convertToEnumEntity(node) == [name |-> node.name]

\* typeMapping of ../protobuf/typeMapping: the numeric kinds become number,
\* bool becomes boolean, bytes and string become string, any other name is
\* kept; a repeated field has the array of that type.
typeMapping(type, repeated) ==
  LET mapped ==
        IF type \in {"double", "float", "int32", "int64", "uint32", "uint64",
                     "sint32", "sint64", "fixed32", "fixed64", "sfixed32",
                     "sfixed64"} THEN "number"
        ELSE IF type = "bool" THEN "boolean"
        ELSE IF type \in {"bytes", "string"} THEN "string"
        ELSE type
  IN  IF repeated THEN mapped \o "[]" ELSE mapped

\* Field.repeated, Field.required and Field.optional, from the field's rule.
FieldRepeated(d) == d.rule = "repeated"
FieldRequired(d) == d.rule = "required"
FieldOptional(d) == ~FieldRequired(d)

convertFieldToInterfacePropertyEntity(d) ==
  [comment |-> d.comment,
   defaultValue |-> "",
   index |-> d.id,
   type |-> typeMapping(d.type, FieldRepeated(d)),
   optional |-> FieldOptional(d),
   required |-> FieldRequired(d)]

RECURSIVE convertMessageToInterfaceEntity(_)
convertMessageToInterfaceEntity(node) ==
  LET enums == SelectSeq(node.nested, LAMBDA c : c.kind = "enum")
      msgs == SelectSeq(node.nested, LAMBDA c : c.kind = "message")
  IN  [name |-> node.name,
       properties |->
         [f \in 1..Len(node.fields) |->
            [key |-> node.fields[f].name,
             value |-> convertFieldToInterfacePropertyEntity(node.fields[f])]],
       childrenInterfaces |->
         [c \in 1..Len(msgs) |-> convertMessageToInterfaceEntity(msgs[c])],
       childrenEnums |->
         [c \in 1..Len(enums) |-> convertToEnumEntity(enums[c])]]

convertServiceToServiceEntity(node) == [name |-> node.name]

MetaNode(asts, meta) == NodeAt(asts[meta.ast].nested, meta.path)

\* strLines: the namespace line, then the enums, the interfaces and the
\* services of data, in that order.
StrLines(namespace, data, asts) ==
  LET enums == SelectSeq(data, LAMBDA d : d.type = "enum")
      msgs == SelectSeq(data, LAMBDA d : d.type = "message")
      svcs == SelectSeq(data, LAMBDA d : d.type = "service")
  IN  [namespace |->
         StripDot(FullName(asts[namespace.meta.ast], namespace.meta.path)),
       body |->
         [e \in 1..Len(enums) |->
            [decl |-> "enum",
             entity |-> convertToEnumEntity(MetaNode(asts, enums[e].meta))]]
         \o [e \in 1..Len(msgs) |->
            [decl |-> "interface",
             entity |->
               convertMessageToInterfaceEntity(MetaNode(asts, msgs[e].meta))]]
         \o [e \in 1..Len(svcs) |->
            [decl |-> "service",
             entity |->
               convertServiceToServiceEntity(MetaNode(asts, svcs[e].meta))]]]

----------------------------------------------------------------------------
(* loadPb                                                                  *)

NoTask == [st |-> "todo", namespace |-> NoRef]

Init ==
  /\ files \in FileLists
  /\ lint \in BOOLEAN
  /\ pc = "load"
  /\ fileIdx = 1
  /\ nodeMap = <<>>
  /\ astList = <<>>
  /\ filenameNodeMap = <<>>
  /\ astIdx = 1
  /\ pass = 1
  /\ assigned = {}
  /\ taskIdx = 1
  /\ tasks = [f \in 1..Len(files) |-> NoTask]
  /\ written = <<>>

\* Fault variant of ParseError: the parse error leaves loadPb.
ParseErrorThrown ==
  /\ pc = "load" /\ fileIdx <= Len(files)
  /\ ~files[fileIdx].ok
  /\ pc' = "aborted"
  /\ UNCHANGED <<files, lint, fileIdx, nodeMap, astList, filenameNodeMap,
                 astIdx, pass, assigned, taskIdx, tasks, written>>

\* pb.parse throws: the error is logged and the callback returns.
ParseError ==
  /\ pc = "load" /\ fileIdx <= Len(files)
  /\ ~files[fileIdx].ok
  /\ fileIdx' = fileIdx + 1
  /\ UNCHANGED <<files, lint, pc, nodeMap, astList, filenameNodeMap, astIdx,
                 pass, assigned, taskIdx, tasks, written>>

\* options.lint: a parsed file is left at that.
LintReturn ==
  /\ pc = "load" /\ fileIdx <= Len(files)
  /\ files[fileIdx].ok
  /\ lint
  /\ fileIdx' = fileIdx + 1
  /\ UNCHANGED <<files, lint, pc, nodeMap, astList, filenameNodeMap, astIdx,
                 pass, assigned, taskIdx, tasks, written>>

\* Fault variant of PackageNotFound: the file is skipped like a parse error.
PackageNotFoundSkipped ==
  /\ pc = "load" /\ fileIdx <= Len(files)
  /\ files[fileIdx].ok
  /\ ~lint
  /\ files[fileIdx].package = ""
  /\ fileIdx' = fileIdx + 1
  /\ UNCHANGED <<files, lint, pc, nodeMap, astList, filenameNodeMap, astIdx,
                 pass, assigned, taskIdx, tasks, written>>

\* No package: the Error thrown in the callback leaves forEach and loadPb.
PackageNotFound ==
  /\ pc = "load" /\ fileIdx <= Len(files)
  /\ files[fileIdx].ok
  /\ ~lint
  /\ files[fileIdx].package = ""
  /\ pc' = "aborted"
  /\ UNCHANGED <<files, lint, fileIdx, nodeMap, astList, filenameNodeMap,
                 astIdx, pass, assigned, taskIdx, tasks, written>>

\* astList.push(ast); crawlAST(namespaceNode, nodeMap, filename).  The
\* namespace node of a declared package is always found in the file's tree.
Register ==
  /\ pc = "load" /\ fileIdx <= Len(files)
  /\ files[fileIdx].ok
  /\ ~lint
  /\ files[fileIdx].package # ""
  /\ LET ast == [file |-> fileIdx, package |-> files[fileIdx].package,
                 nested |-> files[fileIdx].nested]
     IN  /\ astList' = Append(astList, ast)
         /\ nodeMap' = crawlAST(ast, Len(astList) + 1, nodeMap, fileIdx)
  /\ fileIdx' = fileIdx + 1
  /\ UNCHANGED <<files, lint, pc, filenameNodeMap, astIdx, pass, assigned,
                 taskIdx, tasks, written>>

\* Fault variant of BuildFileIndex: the output tasks are started right after
\* the index is built, before the resolver has run.
BuildFileIndexThenEmit ==
  /\ pc = "load" /\ fileIdx > Len(files)
  /\ filenameNodeMap' = GroupByFilename(nodeMap, <<>>)
  /\ pc' = "emit"
  /\ astIdx' = 1
  /\ UNCHANGED <<files, lint, fileIdx, nodeMap, astList, pass, assigned,
                 taskIdx, tasks, written>>

\* The loop over nodeMap that fills filenameNodeMap, once forEach is over.
BuildFileIndex ==
  /\ pc = "load" /\ fileIdx > Len(files)
  /\ filenameNodeMap' = GroupByFilename(nodeMap, <<>>)
  /\ pc' = IF astList = <<>> THEN "emit" ELSE "resolve"
  /\ astIdx' = 1
  /\ UNCHANGED <<files, lint, fileIdx, nodeMap, astList, pass, assigned,
                 taskIdx, tasks, written>>

\* One callback of astList.forEach: crawlAstAndAttachNamespace(ast, nodeMap)
AttachNamespace ==
  /\ pc = "resolve" /\ astIdx <= Len(astList)
  /\ astList' = [astList EXCEPT ![astIdx].nested =
                   AttachedNested(astList[astIdx], nodeMap, astList)]
  /\ assigned' = assigned \cup
                   AttachLog(astIdx, astList[astIdx], nodeMap, astList, pass)
  /\ astIdx' = astIdx + 1
  /\ pc' = IF astIdx = Len(astList) THEN "emit" ELSE "resolve"
  /\ UNCHANGED <<files, lint, fileIdx, nodeMap, filenameNodeMap, pass,
                 taskIdx, tasks, written>>

\* The namespace entry an output task picks: the first one of data.
FirstNamespace(data) ==
  LET ns == SelectSeq(data, LAMBDA d : d.type = "namespace")
  IN  IF ns = <<>> THEN NoRef ELSE ns[1].meta

\* An output task up to its first await: fileList.map runs these one after
\* the other.  The task returns when the file has no data or no namespace.
EmitStart ==
  /\ pc = "emit" /\ taskIdx <= Len(files)
  /\ LET namespace == IF taskIdx \in DOMAIN filenameNodeMap
                        THEN FirstNamespace(filenameNodeMap[taskIdx])
                        ELSE NoRef
     IN  tasks' = [tasks EXCEPT ![taskIdx] =
                     IF namespace = NoRef
                       THEN [st |-> "returned", namespace |-> NoRef]
                       ELSE [st |-> "awaiting", namespace |-> namespace]]
  /\ taskIdx' = taskIdx + 1
  /\ UNCHANGED <<files, lint, pc, fileIdx, nodeMap, astList, filenameNodeMap,
                 astIdx, pass, assigned, written>>

\* An output task from the end of ensureDir to its second await: the tasks
\* resume in any order.  strLines is built and handed to fs.writeFile; the
\* task is pending until writeFile is over.
EmitWrite(f) ==
  /\ pc = "emit" /\ taskIdx > Len(files)
  /\ tasks[f].st = "awaiting"
  /\ written' = Append(written,
                  [filename |-> f,
                   content |-> StrLines([meta |-> tasks[f].namespace],
                                        filenameNodeMap[f], astList)])
  /\ tasks' = [tasks EXCEPT ![f].st = "writing"]
  /\ UNCHANGED <<files, lint, pc, fileIdx, nodeMap, astList, filenameNodeMap,
                 astIdx, pass, assigned, taskIdx>>

\* fs.writeFile is over and the output task ends; the writes end in any
\* order, while other tasks still hand their text over.
EmitDone(f) ==
  /\ pc = "emit" /\ taskIdx > Len(files)
  /\ tasks[f].st = "writing"
  /\ tasks' = [tasks EXCEPT ![f].st = "written"]
  /\ UNCHANGED <<files, lint, pc, fileIdx, nodeMap, astList, filenameNodeMap,
                 astIdx, pass, assigned, taskIdx, written>>

\* Promise.all resolves once every task has ended; combine runs and loadPb
\* returns nodeMap.
Combine ==
  /\ pc = "emit" /\ taskIdx > Len(files)
  /\ \A f \in 1..Len(files) : tasks[f].st \notin {"awaiting", "writing"}
  /\ pc' = "done"
  /\ UNCHANGED <<files, lint, fileIdx, nodeMap, astList, filenameNodeMap,
                 astIdx, pass, assigned, taskIdx, tasks, written>>

Next ==
  \/ ParseError
  \/ LintReturn
  \/ PackageNotFound
  \/ Register
  \/ BuildFileIndex
  \/ AttachNamespace
  \/ EmitStart
  \/ \E f \in 1..Len(files) : EmitWrite(f)
  \/ \E f \in 1..Len(files) : EmitDone(f)
  \/ Combine

Spec == Init /\ [][Next]_vars

\* A caller applying the exported resolver to every file a second time.
SecondPass ==
  /\ pc = "emit" /\ pass = 1 /\ taskIdx = 1
  /\ astList # <<>>
  /\ pass' = 2
  /\ astIdx' = 1
  /\ pc' = "resolve"
  /\ UNCHANGED <<files, lint, fileIdx, nodeMap, astList, filenameNodeMap,
                 assigned, taskIdx, tasks, written>>

NextTwice ==
  \/ ParseError
  \/ LintReturn
  \/ PackageNotFound
  \/ Register
  \/ BuildFileIndex
  \/ AttachNamespace
  \/ SecondPass

SpecTwice == Init /\ [][NextTwice]_vars

----------------------------------------------------------------------------
(* Vocabulary of the properties                                            *)

RECURSIVE Paths(_)
\* The paths of all nodes below a nestedArray, at any depth.
Paths(nested) ==
  UNION {{<<c>>} \cup {<<c>> \o p : p \in Paths(nested[c].nested)} :
           c \in 1..Len(nested)}

Declarations(ast) ==
  {p \in Paths(ast.nested) :
     NodeAt(ast.nested, p).kind \in {"enum", "message", "service"}}

MessagePaths(ast) ==
  {p \in Paths(ast.nested) : NodeAt(ast.nested, p).kind = "message"}

TopMessagePaths(ast) == {p \in MessagePaths(ast) : Len(p) = 1}

FieldRefs(ast, paths) ==
  UNION {{<<p, f>> : f \in 1..Len(NodeAt(ast.nested, p).fields)} : p \in paths}

\* The field as parsed, and as it stands now.
OrigType(a, p, f) ==
  NodeAt(files[astList[a].file].nested, p).fields[f].type

CurType(a, p, f) == NodeAt(astList[a].nested, p).fields[f].type

EntriesUnder(key) ==
  IF HasKey(nodeMap, key) THEN nodeMap[KeyPos(nodeMap, key)].node ELSE <<>>

AllEntries ==
  UNION {{nodeMap[p].node[q] : q \in 1..Len(nodeMap[p].node)} :
           p \in 1..Len(nodeMap)}

EntryName(e) == NodeName(astList[e.meta.ast], e.meta.path)

\* Some enum or message entry of the registry has this simple name.
DeclaredTypeName(name) ==
  \E e \in AllEntries : e.type \in {"enum", "message"} /\ EntryName(e) = name

\* The primitive keywords, as the resolver's contract lists them.
PrimitiveKeywords ==
  {"double", "float", "int32", "int64", "uint32", "uint64", "sint32",
   "sint64", "fixed32", "fixed64", "sfixed32", "sfixed64"}
  \cup {"bool", "bytes", "string"} \cup {"list", "map"}

IsPrimitive(type) == type \in PrimitiveKeywords

IsBare(type) == ~Contains(type, ".")

ResolutionOver == pc \in {"emit", "done"}

MissingPackage(f) == files[f].ok /\ files[f].package = ""

----------------------------------------------------------------------------
(* C1                                                                      *)

EntriesOfFile(key, f) ==
  {q \in 1..Len(EntriesUnder(key)) : EntriesUnder(key)[q].filename = f}

RegisteredOnce(a, p) ==
  LET key == StripDot(FullName(astList[a], p))
      mine == EntriesOfFile(key, astList[a].file)
  IN  /\ Cardinality(mine) = 1
      /\ \A q \in mine :
           /\ EntriesUnder(key)[q].meta = [ast |-> a, path |-> p]
           /\ EntriesUnder(key)[q].type = NodeKind(astList[a], p)

\* C1 as stated: every enum, message or service of a crawled file, at any
\* nesting depth (types nested inside a message included), has exactly one
\* registry entry of that file under its fully-qualified name.
C1_AnyDepth ==
  \A a \in 1..Len(astList) : \A p \in Declarations(astList[a]) :
    RegisteredOnce(a, p)

C1_DirectChildren ==
  \A a \in 1..Len(astList) :
    \A p \in {q \in Declarations(astList[a]) : Len(q) = 1} :
      RegisteredOnce(a, p)

IsPrefix(s, t) == Len(s) <= Len(t) /\ SubSeq(t, 1, Len(s)) = s

C1_KeptEntries ==
  /\ Len(nodeMap) <= Len(nodeMap')
  /\ \A p \in 1..Len(nodeMap) :
       /\ nodeMap'[p].ns = nodeMap[p].ns
       /\ IsPrefix(nodeMap[p].node, nodeMap'[p].node)

\* C1, amended: every enum, message or service declared directly in the
\* package namespace of a crawled file has exactly one registry entry of
\* that file under its fully-qualified name, whatever the other files and
\* their order; a name declared in two files has one entry per file; and a
\* step never overwrites or removes an entry (lists only grow at the end).
C1_Registered == [](C1_DirectChildren) /\ [][C1_KeptEntries]_vars

\* Two files declared the same name and both entries are in the list.
C1_Witness ==
  \E p \in 1..Len(nodeMap) :
    /\ Len(nodeMap[p].node) >= 2
    /\ nodeMap[p].node[1].type = "message"
    /\ nodeMap[p].node[1].filename # nodeMap[p].node[2].filename

----------------------------------------------------------------------------
(* C2                                                                      *)

DeclaredInPackage(package, name) ==
  \E a \in 1..Len(astList) :
    /\ astList[a].package = package
    /\ \E c \in 1..Len(astList[a].nested) :
         /\ astList[a].nested[c].kind \in {"enum", "message"}
         /\ astList[a].nested[c].name = name

\* C2: once resolution is over, a field of a message of package P whose
\* parsed type is a bare, non-primitive name T, with an enum or message T
\* declared directly in P (in any file), has type "P.T".  Stated for the
\* fields the resolver visits (messages that are direct children of P).
C2_SamePackage ==
  ResolutionOver =>
    \A a \in 1..Len(astList) :
      \A <<p, f>> \in FieldRefs(astList[a], TopMessagePaths(astList[a])) :
        LET T == OrigType(a, p, f)
            P == astList[a].package
        IN  (~IsPrimitive(T) /\ IsBare(T) /\ DeclaredInPackage(P, T))
              => CurType(a, p, f) = P \o "." \o T

----------------------------------------------------------------------------
(* C3                                                                      *)

\* C3: a field whose parsed type is a primitive keyword, or names no enum or
\* message entry of the registry, keeps its type in every state, whatever
\* is registered; the resolver never aborts the run and always goes on to
\* the next file.
C3_NoOp ==
  /\ \A a \in 1..Len(astList) :
       \A <<p, f>> \in FieldRefs(astList[a], MessagePaths(astList[a])) :
         (IsPrimitive(OrigType(a, p, f)) \/ ~DeclaredTypeName(OrigType(a, p, f)))
           => CurType(a, p, f) = OrigType(a, p, f)
  /\ pc = "aborted" => (fileIdx <= Len(files) /\ assigned = {})
  /\ pc = "resolve" => astIdx <= Len(astList)

\* After resolution: a message named like a primitive is registered, a
\* visited field of that primitive type and a visited field of an undeclared
\* type are as parsed, while another field was rewritten.
C3_Witness ==
  /\ ResolutionOver
  /\ DeclaredTypeName("bool")
  /\ assigned # {}
  /\ \E a \in 1..Len(astList) :
       \E <<p, f>> \in FieldRefs(astList[a], TopMessagePaths(astList[a])) :
         OrigType(a, p, f) = "bool" /\ CurType(a, p, f) = "bool"
  /\ \E a \in 1..Len(astList) :
       \E <<p, f>> \in FieldRefs(astList[a], TopMessagePaths(astList[a])) :
         OrigType(a, p, f) = "U" /\ CurType(a, p, f) = "U"

----------------------------------------------------------------------------
(* C4                                                                      *)

\* C4: with the registry unchanged, a second pass of the resolver over all
\* files changes no field type: every step taken once the second pass has
\* begun leaves every AST as the first pass left it, and logs no assignment.
C4_Idempotent ==
  [][pass' = 2 => (astList' = astList /\ assigned' = assigned)]_vars

\* The second pass is over; the first pass rewrote a field and left
\* another, non-primitive one as parsed.
C4_Witness ==
  /\ pass = 2 /\ pc = "emit"
  /\ \E r \in assigned : r.pass = 1 /\ r.to # r.from
  /\ \E a \in 1..Len(astList) :
       \E <<p, f>> \in FieldRefs(astList[a], TopMessagePaths(astList[a])) :
         /\ ~IsPrimitive(OrigType(a, p, f))
         /\ CurType(a, p, f) = OrigType(a, p, f)

----------------------------------------------------------------------------
(* C5                                                                      *)

\* The files handled so far whose parse succeeded, in file order.
KeptFiles == SelectSeq([f \in 1..(fileIdx - 1) |-> f], LAMBDA f : files[f].ok)

AllKeptFiles == SelectSeq([f \in 1..Len(files) |-> f], LAMBDA f : files[f].ok)

RECURSIVE RunLoad(_, _, _)
\* Registration of a list of parsed files, none of them failing.
RunLoad(fs, nm, asts) ==
  IF fs = <<>> THEN [nm |-> nm, asts |-> asts]
  ELSE LET ast == [file |-> Head(fs), package |-> files[Head(fs)].package,
                   nested |-> files[Head(fs)].nested]
       IN  RunLoad(Tail(fs), crawlAST(ast, Len(asts) + 1, nm, Head(fs)),
                   Append(asts, ast))

RECURSIVE RunAttach(_, _, _)
RunAttach(a, nm, asts) ==
  IF a > Len(asts) THEN asts
  ELSE RunAttach(a + 1, nm,
                 [asts EXCEPT ![a].nested = AttachedNested(asts[a], nm, asts)])

\* What a run over the parsed files alone writes.
RunOutputs(fs) ==
  LET run == RunLoad(fs, <<>>, <<>>)
      index == GroupByFilename(run.nm, <<>>)
      asts == RunAttach(1, run.nm, run.asts)
  IN  {[filename |-> f,
        content |-> StrLines([meta |-> FirstNamespace(index[f])], index[f],
                             asts)] : f \in DOMAIN index}

WrittenSet == {written[w] : w \in 1..Len(written)}

\* C5: a file whose parse fails has no registry entry, no file-index entry
\* and no output; the registry is the one a run over the other files alone
\* builds, and so are the outputs when the run is done; a parse failure
\* never aborts the run.
C5_Isolation ==
  /\ \A f \in 1..Len(files) : ~files[f].ok =>
       /\ \A e \in AllEntries : e.filename # f
       /\ f \notin DOMAIN filenameNodeMap
       /\ \A w \in WrittenSet : w.filename # f
       /\ ~(pc = "aborted" /\ fileIdx = f)
  /\ ~lint => nodeMap = RunLoad(KeptFiles, <<>>, <<>>).nm
  /\ (pc = "done" /\ ~lint) =>
       /\ WrittenSet = RunOutputs(AllKeptFiles)
       /\ Len(written) = Cardinality(WrittenSet)

\* The run is done, a file failed to parse, and files before and after it
\* were written.
C5_Witness ==
  /\ pc = "done"
  /\ \E f \in 1..Len(files) :
       /\ ~files[f].ok
       /\ \E w \in WrittenSet : w.filename < f
       /\ \E w \in WrittenSet : w.filename > f

----------------------------------------------------------------------------
(* C6                                                                      *)

\* C6 as stated: a parsed file without a package aborts the run, in lint
\* mode too: the run never gets past such a file.
C6_AlwaysFatal ==
  \A f \in 1..Len(files) : (MissingPackage(f) /\ fileIdx > f) => pc = "aborted"

\* C6, amended: outside lint mode a parsed file without a package aborts the
\* run: the run never gets past it, nothing is written for any file (those
\* registered before it included) and no step follows.  Nothing else aborts
\* the run; in lint mode the package is not looked at and no run aborts.
C6_FatalUnlessLint ==
  /\ ~lint => \A f \in 1..(fileIdx - 1) : ~MissingPackage(f)
  /\ pc = "aborted" =>
       /\ ~lint
       /\ fileIdx <= Len(files) /\ MissingPackage(fileIdx)
       /\ written = <<>>
       /\ \A f \in 1..Len(files) : tasks[f].st = "todo"
       /\ ~ENABLED Next
  /\ (~lint /\ pc = "load" /\ fileIdx <= Len(files) /\ MissingPackage(fileIdx))
       => (ENABLED PackageNotFound /\ ~ENABLED Register)

\* The run aborted at a file that follows registered files.
C6_Witness ==
  /\ pc = "aborted"
  /\ fileIdx > 1
  /\ nodeMap # <<>>

----------------------------------------------------------------------------
(* C7                                                                      *)

\* C7: once resolution is over, in every message of every parsed file, at
\* any nesting depth, a field whose parsed type is a bare, non-primitive
\* name that is the simple name of a registered enum or message has a
\* registry key as its type.
C7_Coverage ==
  ResolutionOver =>
    \A a \in 1..Len(astList) :
      \A <<p, f>> \in FieldRefs(astList[a], MessagePaths(astList[a])) :
        LET T == OrigType(a, p, f)
        IN  (~IsPrimitive(T) /\ IsBare(T) /\ DeclaredTypeName(T))
              => HasKey(nodeMap, CurType(a, p, f))

----------------------------------------------------------------------------
(* C8                                                                      *)

OutputsOf(f) == {w \in 1..Len(written) : written[w].filename = f}

DeclOf(type) == IF type = "message" THEN "interface" ELSE type

Rank(decl) == IF decl = "enum" THEN 1 ELSE IF decl = "interface" THEN 2 ELSE 3

\* The registry entries of a file that are declarations, as <<decl, name>>.
DeclaredBy(f) ==
  {<<DeclOf(e.type), EntryName(e)>> :
     e \in {x \in AllEntries : x.filename = f /\ x.type # "namespace"}}

\* C8: when the run is done, every parsed file has exactly one output; its
\* namespace is the file's own package name, and its body lists exactly the
\* enum, message and service entries of the registry declared by that file,
\* enums first, then interfaces, then services.
C8_Output ==
  (pc = "done" /\ ~lint) =>
    \A a \in 1..Len(astList) :
      LET f == astList[a].file
      IN  /\ Cardinality(OutputsOf(f)) = 1
          /\ \A w \in OutputsOf(f) :
               LET body == written[w].content.body
               IN  /\ written[w].content.namespace = files[f].package
                   /\ {<<body[x].decl, body[x].entity.name>> :
                         x \in 1..Len(body)} = DeclaredBy(f)
                   /\ Len(body) = Cardinality(DeclaredBy(f))
                   /\ \A x, y \in 1..Len(body) :
                        x < y => Rank(body[x].decl) <= Rank(body[y].decl)

\* Done, with outputs for a file of package a and one of package a.a, and
\* with a fully-qualified name declared by two of the files.
C8_Witness ==
  /\ pc = "done"
  /\ \E v, w \in 1..Len(written) :
       /\ written[v].content.namespace = "a"
       /\ written[w].content.namespace = "a.a"
       /\ Len(written[v].content.body) >= 2
  /\ C1_Witness

----------------------------------------------------------------------------
(* C9                                                                      *)

EmissionStarted ==
  written # <<>> \/ \E f \in 1..Len(files) : tasks[f].st # "todo"

C9_State ==
  /\ EmissionStarted =>
       /\ ResolutionOver
       /\ fileIdx > Len(files)
       /\ astList # <<>> => astIdx > Len(astList)
  /\ \A w \in 1..Len(written) :
       written[w].content =
         StrLines([meta |-> tasks[written[w].filename].namespace],
                  filenameNodeMap[written[w].filename], astList)

C9_Step ==
  /\ pc # "load" => nodeMap' = nodeMap
  /\ pc = "emit" =>
       /\ nodeMap' = nodeMap
       /\ filenameNodeMap' = filenameNodeMap
       /\ astList' = astList

\* C9: nothing is emitted before every file is registered and resolved; no
\* registry entry is inserted once resolution has started; the output tasks
\* change no registry entry, file-index entry or field type; and what an
\* output holds is the rendering of the final, resolved nodes.
C9_Phases == [](C9_State) /\ [][C9_Step]_vars

\* Done: an output holds a property whose type is one the resolver assigned.
C9_Witness ==
  /\ pc = "done"
  /\ \E w \in 1..Len(written) :
       \E x \in 1..Len(written[w].content.body) :
         LET item == written[w].content.body[x]
         IN  /\ item.decl = "interface"
             /\ \E y \in 1..Len(item.entity.properties) :
                  \E r \in assigned :
                    /\ r.to # r.from
                    /\ astList[r.ast].file = written[w].filename
                    /\ item.entity.name = astList[r.ast].nested[r.d].name
                    /\ y = r.f
                    /\ item.entity.properties[y].value.type =
                         typeMapping(r.to,
                           FieldRepeated(astList[r.ast].nested[r.d].fields[r.f]))
                    /\ item.entity.properties[y].value.type
                         # typeMapping(r.from,
                             FieldRepeated(astList[r.ast].nested[r.d].fields[r.f]))

----------------------------------------------------------------------------
(* C10                                                                     *)

\* The surviving entries of one candidate, in registry order: the entries,
\* under the keys containing the search key, that are enums or messages
\* named as the field's parsed type.
RECURSIVE Survivors(_, _, _)
Survivors(nm, ff, bare) ==
  IF nm = <<>> THEN <<>>
  ELSE (IF Contains(Head(nm).ns, ff)
          THEN SelectSeq(Head(nm).node,
                         LAMBDA e : /\ e.type \in {"enum", "message"}
                                    /\ EntryName(e) = bare)
          ELSE <<>>)
       \o Survivors(Tail(nm), ff, bare)

\* The type the stated rule gives: the first survivor of the
\* package-qualified candidate, else the first survivor of the bare one,
\* else the parsed type.
ExpectedType(package, bare) ==
  LET s1 == Survivors(nodeMap, package \o "." \o bare, bare)
      s2 == Survivors(nodeMap,
                      IF Contains(bare, ".") THEN bare ELSE "." \o bare, bare)
      name(e) == StripDot(FullName(astList[e.meta.ast], e.meta.path))
  IN  IF s1 # <<>> THEN name(s1[1])
      ELSE IF s2 # <<>> THEN name(s2[1])
      ELSE bare

\* C10: in a pass a field is assigned at most once; the value assigned is
\* the fully-qualified name of the first survivor of the first candidate
\* that has one (package-qualified before bare), a registry key holding an
\* enum or message named as the parsed type; and every visited field of a
\* resolved file has that type, or its parsed type when no candidate has a
\* survivor.
C10_Candidates ==
  /\ \A r \in assigned :
       /\ r.n = 1
       /\ r.to = ExpectedType(astList[r.ast].package, r.from)
       /\ \E e \in {EntriesUnder(r.to)[q] : q \in 1..Len(EntriesUnder(r.to))} :
            e.type \in {"enum", "message"} /\ EntryName(e) = r.from
  /\ \A a \in 1..Len(astList) :
       (ResolutionOver \/ (pc = "resolve" /\ a < astIdx)) =>
         \A <<p, f>> \in FieldRefs(astList[a], TopMessagePaths(astList[a])) :
           LET T == OrigType(a, p, f)
               E == IF IsPrimitive(T) THEN T
                    ELSE ExpectedType(astList[a].package, T)
           IN  /\ CurType(a, p, f) = E
               /\ Cardinality({r \in assigned :
                                 r.ast = a /\ r.d = p[1] /\ r.f = f})
                    = IF IsPrimitive(T) \/ Survivors(nodeMap, "." \o T, T) = <<>>
                        THEN 0 ELSE 1

\* Resolution is over; a field took the first survivor of the
\* package-qualified candidate although the bare candidate has an earlier
\* survivor under another key, and that key's list holds two entries.
C10_Witness ==
  /\ ResolutionOver
  /\ \E r \in assigned :
       LET s2 == Survivors(nodeMap, "." \o r.from, r.from)
       IN  /\ r.to = astList[r.ast].package \o "." \o r.from
           /\ StripDot(FullName(astList[s2[1].meta.ast], s2[1].meta.path)) # r.to
           /\ Len(EntriesUnder(r.to)) >= 2

====
